---------------------------- MODULE Spec2Model ----------------------------
(***************************************************************************)
(* Model of the subscription-gated YouTube download bot (src/main.py).     *)
(*                                                                         *)
(* Four specifications share the variables below:                          *)
(*   Spec          the dispatcher (one update at a time), the entitlement  *)
(*                 store, the clock and the start of download workers;     *)
(*   SpecWorker    the download callbacks and the workers they start;      *)
(*   SpecProgress  the progress reporter driven by a streaming transfer;   *)
(*   SpecRace      two add_subscription calls on the same store file that  *)
(*                 interleave at the load / save boundary.                 *)
(***************************************************************************)
EXTENDS Integers, Sequences, FiniteSets, TLC

VARIABLES ADMIN_ID, now, subscriptions, workers, replies, logged, update,
          progress, grants

vars == <<ADMIN_ID, now, subscriptions, workers, replies, logged, update,
          progress, grants>>

(***************************************************************************)
(* Bounds of the model.                                                    *)
(***************************************************************************)
\* numeric command arguments range over 0..MaxArg
MaxArg == 1
\* a command carries at most MaxArgc arguments
MaxArgc == 3
\* ordinals count days from January 1st of EpochYear
EpochYear == 2024
\* the clock starts on ordinal StartDay (58 is February 28th)
StartDay == 58
\* ... and runs for MaxDay days
MaxDay == 1
\* background workers started in one run
MaxWorkers == 1
\* videos of a playlist
MaxVideos == 1
\* stream sizes, in bytes, of the progress reporter's transfers
MaxSize == 4
\* seconds of wall-clock time the progress reporter's transfers may take
MaxElapsed == 2

\* an optional integer: None is <<>>, the integer n is <<n>>
None == <<>>
Some(n) == <<n>>
\* the ids of the users who write to the bot
Users == {1, 2}
\* the id ADMIN_ID holds when the administrator is configured
AdminUser == CHOOSE u \in Users : \A v \in Users : v <= u
ArgInts == 0..MaxArg

(***************************************************************************)
(* Calendar: datetime values are [day, tod], day an ordinal counted from   *)
(* January 1st of EpochYear, tod 0 for midnight and 1 for any later time   *)
(* of that day; the stored text "%Y-%m-%d" is <<y, m, d>>.                 *)
(***************************************************************************)
IsLeap(y) == (y % 4 = 0 /\ y % 100 # 0) \/ y % 400 = 0

DaysInMonth(y, m) ==
    IF m = 2 THEN (IF IsLeap(y) THEN 29 ELSE 28)
    ELSE IF m \in {4, 6, 9, 11} THEN 30 ELSE 31

RECURSIVE YMD(_, _, _)
YMD(y, m, d) ==
    IF d >= DaysInMonth(y, m)
    THEN (IF m = 12 THEN YMD(y + 1, 1, d - DaysInMonth(y, m))
                    ELSE YMD(y, m + 1, d - DaysInMonth(y, m)))
    ELSE <<y, m, d + 1>>

RECURSIVE DaysBefore(_, _)
DaysBefore(y, m) ==
    IF y = EpochYear /\ m = 1 THEN 0
    ELSE IF m = 1 THEN DaysBefore(y - 1, 12) + DaysInMonth(y - 1, 12)
    ELSE DaysBefore(y, m - 1) + DaysInMonth(y, m - 1)

\* expiry_date.strftime("%Y-%m-%d"): the time of day is dropped
strftime(dt) == YMD(EpochYear, 1, dt.day)

\* datetime.strptime(text, "%Y-%m-%d"): midnight of that date
strptime(s) == [day |-> DaysBefore(s[1], s[2]) + s[3] - 1, tod |-> 0]

\* datetime + timedelta(days=days)
PlusDays(dt, days) == [day |-> dt.day + days, tod |-> dt.tod]

\* datetime > datetime
DtGreater(a, b) == a.day > b.day \/ (a.day = b.day /\ a.tod > b.tod)

(***************************************************************************)
(* str(user_id): the decimal key of the store.                             *)
(***************************************************************************)
Digit(n) == CASE n = 0 -> "0" [] n = 1 -> "1" [] n = 2 -> "2" [] n = 3 -> "3"
              [] n = 4 -> "4" [] n = 5 -> "5" [] n = 6 -> "6" [] n = 7 -> "7"
              [] n = 8 -> "8" [] n = 9 -> "9"

RECURSIVE str(_)
str(n) == IF n < 10 THEN <<Digit(n)>> ELSE Append(str(n \div 10), Digit(n % 10))

(***************************************************************************)
(* The entitlement store (subscriptions.json).                             *)
(***************************************************************************)
EmptyStore == [users |-> <<>>]

load_subscriptions(file) == file

save_subscriptions_merging(file, data) ==
    [users |-> [k \in (DOMAIN file.users) \cup (DOMAIN data.users) |->
                   IF k \in DOMAIN data.users THEN data.users[k] ELSE file.users[k]]]

save_subscriptions(file, data) == data

\* subscriptions["users"].get(key, {})
GetUser(subs, key) ==
    IF key \in DOMAIN subs.users THEN subs.users[key] ELSE [empty |-> TRUE]

\* subscriptions["users"][key] = rec
PutUser_alone(subs, key, rec) == [users |-> [k \in {key} |-> rec]]

PutUser(subs, key, rec) ==
    [users |-> [k \in (DOMAIN subs.users) \cup {key} |->
                   IF k = key THEN rec ELSE subs.users[k]]]

is_subscribed_late(user_id, admin, file, clock) ==
    IF Some(user_id) = admin THEN TRUE
    ELSE LET user_data == GetUser(load_subscriptions(file), str(user_id))
         IN IF "empty" \in DOMAIN user_data THEN FALSE
            ELSE ~DtGreater(clock, strptime(user_data.expiry))

is_subscribed(user_id, admin, file, clock) ==
    IF Some(user_id) = admin THEN TRUE
    ELSE LET user_data == GetUser(load_subscriptions(file), str(user_id))
         IN IF "empty" \in DOMAIN user_data THEN FALSE
            ELSE DtGreater(strptime(user_data.expiry), clock)

\* the record add_subscription writes for `days` at `clock`; its "plan"
\* label, which nothing reads, is left out
NewRecord(days, clock) ==
    [expiry |-> strftime(PlusDays(clock, days))]

\* lines 77-82 of add_subscription: the loaded mapping with the new record
grant_record(data, user_id, days, clock) ==
    PutUser(data, str(user_id), NewRecord(days, clock))

add_subscription_stacking(user_id, days, file, clock) ==
    LET old == GetUser(load_subscriptions(file), str(user_id))
        base == IF "empty" \notin DOMAIN old /\ DtGreater(strptime(old.expiry), clock)
                THEN [day |-> strptime(old.expiry).day, tod |-> clock.tod]
                ELSE clock
    IN save_subscriptions(file,
           grant_record(load_subscriptions(file), user_id, days, base))

add_subscription(user_id, days, file, clock) ==
    save_subscriptions(file,
        grant_record(load_subscriptions(file), user_id, days, clock))

(***************************************************************************)
(* Callback payloads.  A payload is a sequence of atoms: "_" is the        *)
(* underscore, every other atom is a run of characters without one.        *)
(***************************************************************************)
RECURSIVE SplitFrom(_, _, _, _)
SplitFrom(s, i, cur, acc) ==
    IF i > Len(s) THEN Append(acc, cur)
    ELSE IF s[i] = "_" THEN SplitFrom(s, i + 1, <<>>, Append(acc, cur))
    ELSE SplitFrom(s, i + 1, Append(cur, s[i]), acc)

\* query.data.split("_")
Split(s) == SplitFrom(s, 1, <<>>, <<>>)

\* re.match of a literal prefix
StartsWith(s, p) == Len(s) >= Len(p) /\ SubSeq(s, 1, Len(p)) = p

\* the catalogue of the video platform
VideoIds == {<<"a">>, <<"b", "_", "c">>}
PlaylistIds == {<<"PL">>, <<"QL", "_", "x">>}
Itags == {<<"22">>, <<"140">>}

\* f"select_{video['id']}"
select_data(id) == <<"select", "_">> \o id

\* f"download_video_{video_id}_{stream.itag}", f"download_audio_..."
download_data(type, id, itag) == <<"download", "_", type, "_">> \o id \o <<"_">> \o itag

\* f"download_playlist_{pl.playlist_id}"
playlist_all_data(id) == <<"download", "_", "playlist", "_">> \o id

\* f"download_playlist_audio_{pl.playlist_id}"
playlist_audio_data(id) == <<"download", "_", "playlist", "_", "audio", "_">> \o id

\* f"playlist_{yt.vid_info['playlist'][0]}"
playlist_entire_data(id) == <<"playlist", "_">> \o id

SubscribeData == {<<"subscribe">>} \cup {<<"sub", "_", n>> : n \in {"1", "3", "6", "12"}}

\* every payload of a button the bot builds
CallbackData ==
    {select_data(id) : id \in VideoIds}
    \cup {download_data("video", id, <<"22">>) : id \in VideoIds}
    \cup {download_data("audio", id, <<"140">>) : id \in VideoIds}
    \cup {playlist_all_data(id) : id \in PlaylistIds}
    \cup {playlist_audio_data(id) : id \in PlaylistIds}
    \cup {playlist_entire_data(id) : id \in PlaylistIds}
    \cup SubscribeData

\* the CallbackQueryHandler patterns of main(), first match wins
Route(data) ==
    IF StartsWith(data, <<"select", "_">>) THEN "handle_video_selection"
    ELSE IF StartsWith(data, <<"download", "_", "video", "_">>)
            \/ StartsWith(data, <<"download", "_", "audio", "_">>)
         THEN "handle_download"
    ELSE IF StartsWith(data, <<"download", "_", "playlist", "_">>)
            \/ StartsWith(data, <<"playlist", "_">>)
         THEN "handle_playlist_download"
    ELSE IF data = <<"subscribe">> THEN "handle_subscription"
    ELSE IF Len(data) = 3 /\ StartsWith(data, <<"sub", "_">>)
            /\ data[3] \in {"1", "3", "6", "12"}
         THEN "handle_subscription"
    ELSE "none"

\* the payloads the dispatcher hands to handler h
RoutedTo(h) == {data \in CallbackData : Route(data) = h}

(***************************************************************************)
(* Handlers.  A handler's result: the messages it sent or edited, whether  *)
(* it raised out of the handler, the worker it started and the store it    *)
(* left.  `ext` is the outcome of the external calls the handler makes.    *)
(* "x_error" is the reply "❌ Error: ...", "error_text" is "Error: ...".    *)
(***************************************************************************)
Result(msgs, raised, spawn, file) ==
    [replies |-> msgs, raised |-> raised, spawn |-> spawn, file |-> file]

\* no Thread(...).start()
NoWorker == <<>>

Replied(msgs, file) == Result(msgs, FALSE, NoWorker, file)

start(user_id, admin, file, clock) ==
    IF is_subscribed(user_id, admin, file, clock)
    THEN Replied(<<"welcome">>, file)
    ELSE Replied(<<"welcome_offer">>, file)

search(user_id, args, ext, admin, file, clock) ==
    IF ~is_subscribed(user_id, admin, file, clock)
    THEN Replied(<<"please_subscribe">>, file)
    ELSE IF args = <<>> THEN Replied(<<"provide_query">>, file)
    ELSE IF ext = "raise" THEN Result(<<"searching">>, TRUE, NoWorker, file)
    ELSE IF ext = "fail" THEN Replied(<<"searching", "no_videos">>, file)
    ELSE Replied(<<"searching", "results">>, file)

\* the video id handle_video_selection reads from a payload:
\* query.data.split("_")[1]
selection_video_id(data) == Split(data)[2]

handle_video_selection(user_id, data, ext, admin, file, clock) ==
    IF ~is_subscribed(user_id, admin, file, clock)
    THEN Replied(<<"please_subscribe">>, file)
    ELSE LET video_id == selection_video_id(data)
         IN IF ext = "ok" /\ video_id \in VideoIds
            THEN Replied(<<"options">>, file)
            ELSE Replied(<<"x_error">>, file)

handle_download_ungated(user_id, data, ext, admin, file, clock) ==
    LET fields == Split(data)
    IN IF Len(fields) < 4 THEN Result(<<>>, TRUE, NoWorker, file)
       ELSE IF ext = "ok" /\ fields[3] \in VideoIds /\ fields[4] \in Itags
            THEN Result(<<"preparing">>, FALSE, fields[2], file)
            ELSE Replied(<<"x_error">>, file)

\* a payload field the handler indexes past the end of the split list
IndexError == [raised |-> TRUE, download_type |-> <<>>, id |-> <<>>, itag |-> <<>>]

\* the fields handle_download reads from a payload: data[1], data[2], data[3]
\* of query.data.split("_")
download_fields(data) ==
    LET fields == Split(data)
    IN IF Len(fields) < 4 THEN IndexError
       ELSE [raised |-> FALSE, download_type |-> fields[2],
             id |-> fields[3], itag |-> fields[4]]

handle_download(user_id, data, ext, admin, file, clock) ==
    IF ~is_subscribed(user_id, admin, file, clock)
    THEN Replied(<<"please_subscribe">>, file)
    ELSE LET d == download_fields(data)
         IN IF d.raised THEN Result(<<>>, TRUE, NoWorker, file)
            ELSE IF ext = "ok" /\ d.id \in VideoIds /\ d.itag \in Itags
                 THEN Result(<<"preparing">>, FALSE, d.download_type, file)
                 ELSE Replied(<<"x_error">>, file)

playlist(user_id, args, ext, admin, file, clock) ==
    IF ~is_subscribed(user_id, admin, file, clock)
    THEN Replied(<<"please_subscribe">>, file)
    ELSE IF args = <<>> THEN Replied(<<"provide_playlist_url">>, file)
    ELSE IF args[1] # "playlist_url" THEN Replied(<<"invalid_playlist_url">>, file)
    ELSE IF ext = "ok" THEN Replied(<<"found_playlist", "playlist_options">>, file)
    ELSE Replied(<<"error_text">>, file)

\* the fields handle_playlist_download reads from a payload:
\* data[2] if data[1] == "playlist" else "video", then data[3], both before
\* the try block
playlist_fields(data) ==
    LET fields == Split(data)
    IN IF Len(fields) < 4 THEN IndexError
       ELSE [raised |-> FALSE,
             download_type |-> IF fields[2] = <<"playlist">>
                               THEN fields[3] ELSE <<"video">>,
             id |-> fields[4], itag |-> <<>>]

handle_playlist_download(user_id, data, ext, admin, file, clock) ==
    IF ~is_subscribed(user_id, admin, file, clock)
    THEN Replied(<<"please_subscribe">>, file)
    ELSE LET d == playlist_fields(data)
         IN IF d.raised THEN Result(<<>>, TRUE, NoWorker, file)
            ELSE IF ext = "ok" /\ d.id \in PlaylistIds
                 THEN Result(<<"preparing_playlist">>, FALSE,
                             <<"playlist">> \o d.download_type, file)
                 ELSE Replied(<<"x_error">>, file)

\* a plain text message; context.args is None outside a command
handle_url(user_id, text, ext, admin, file, clock) ==
    IF ~is_subscribed(user_id, admin, file, clock)
    THEN Replied(<<"please_subscribe">>, file)
    ELSE IF text = "other" THEN Replied(<<"invalid_url">>, file)
    ELSE IF text = "playlist_url" THEN playlist(user_id, <<>>, ext, admin, file, clock)
    ELSE IF ext = "ok" THEN Replied(<<"options">>, file)
    ELSE Replied(<<"error_text">>, file)

handle_subscription(user_id, admin, file, clock) ==
    IF Some(user_id) = admin THEN Replied(<<"admin_full_access">>, file)
    ELSE IF is_subscribed(user_id, admin, file, clock)
    THEN Replied(<<"subscribed">>, file)
    ELSE Replied(<<"plans">>, file)

\* a command argument: a numeral of value val, or a word int() rejects
Tokens == [num : {TRUE}, val : ArgInts] \cup {[num |-> FALSE, val |-> 0]}

\* an argument in a position admin_add_sub never reads
Filler == [num |-> FALSE, val |-> 0]

\* context.args of /addsub: admin_add_sub reads the count and the first two
ArgLists ==
    {<<>>} \cup {<<a>> : a \in Tokens}
    \cup {<<a, b>> \o [i \in 1..n |-> Filler] :
              a \in Tokens, b \in Tokens, n \in 0..(MaxArgc - 2)}

admin_add_sub_lenient(user_id, args, admin, file, clock) ==
    IF Some(user_id) # admin THEN Replied(<<"no_permission">>, file)
    ELSE IF Len(args) < 2 THEN Replied(<<"usage">>, file)
    ELSE IF ~args[1].num THEN Replied(<<"error_text">>, file)
    ELSE Replied(<<"added">>,
                 add_subscription(args[1].val, IF args[2].num THEN args[2].val ELSE 0,
                                  file, clock))

admin_add_sub_open(user_id, args, admin, file, clock) ==
    IF Len(args) < 2 THEN Replied(<<"usage">>, file)
    ELSE IF ~args[1].num \/ ~args[2].num THEN Replied(<<"error_text">>, file)
    ELSE Replied(<<"added">>, add_subscription(args[1].val, args[2].val, file, clock))

admin_add_sub(user_id, args, admin, file, clock) ==
    IF Some(user_id) # admin THEN Replied(<<"no_permission">>, file)
    ELSE IF Len(args) < 2 THEN Replied(<<"usage">>, file)
    ELSE IF ~args[1].num \/ ~args[2].num THEN Replied(<<"error_text">>, file)
    ELSE Replied(<<"added">>, add_subscription(args[1].val, args[2].val, file, clock))

\* the error handler main() registers: r is the result of a handler that
\* raised, has_message tells whether update.message is set
error(r, has_message) ==
    [replies |-> IF has_message THEN Append(r.replies, "generic_error") ELSE r.replies,
     logged |-> TRUE]

(***************************************************************************)
(* The dispatcher: one update is handled at a time; a handler that raises  *)
(* is followed by the error handler.                                       *)
(***************************************************************************)
\* the thread a handler starts: Thread(target=...).start()
NewWorker(spawn) ==
    [kind |-> IF spawn[1] = "playlist" THEN "playlist" ELSE "video",
     download_type |-> IF spawn[1] = "playlist" THEN SubSeq(spawn, 2, Len(spawn)) ELSE spawn,
     pc |-> IF spawn[1] = "playlist" THEN "videos" ELSE "transfer",
     delivered |-> FALSE,
     status |-> "preparing",
     i |-> 1,
     success_count |-> 0]

\* the updates the bot receives
NoUpdate == [kind |-> "none", command |-> "", user |-> 0, args |-> <<>>,
             text |-> "", data |-> <<>>]

Message(user_id, command, args, text) ==
    [kind |-> "message", command |-> command, user |-> user_id, args |-> args,
     text |-> text, data |-> <<>>]

CallbackQuery(user_id, data) ==
    [kind |-> "callback_query", command |-> "", user |-> user_id, args |-> <<>>,
     text |-> "", data |-> data]

Updates ==
    {Message(u, "start", <<>>, "") : u \in Users}
    \cup {Message(u, "search", <<>>, t) : u \in Users, t \in {"", "cats"}}
    \cup {Message(u, "playlist", <<>>, t) :
              u \in Users, t \in {"", "playlist_url", "video_url"}}
    \cup {Message(u, "addsub", args, "") : u \in Users, args \in ArgLists}
    \cup {Message(u, "", <<>>, t) :
              u \in Users, t \in {"video_url", "playlist_url", "other"}}
    \cup {CallbackQuery(u, data) : u \in Users, data \in CallbackData}

\* the handler main() registers for an update
Handler(upd) ==
    IF upd.kind = "message"
    THEN (IF upd.command = "" THEN "handle_url" ELSE upd.command)
    ELSE IF upd.kind = "callback_query" THEN Route(upd.data)
    ELSE "none"

\* the dispatcher takes the next update from the queue; replies and logged
\* record what is sent and logged for the update being handled
Receive ==
    /\ update = NoUpdate
    /\ update' \in Updates
    /\ replies' = <<>>
    /\ logged' = FALSE
    /\ UNCHANGED <<ADMIN_ID, now, subscriptions, workers, progress, grants>>

\* the dispatcher runs handler h on the update it holds; r is the handler's
\* result; a handler that raised is followed by the error handler
Dispatch(h, r) ==
    /\ Handler(update) = h
    /\ r.spawn # NoWorker => Len(workers) < MaxWorkers
    /\ LET e == IF r.raised THEN error(r, update.kind = "message")
                ELSE [replies |-> r.replies, logged |-> FALSE]
       IN /\ replies' = e.replies
          /\ logged' = e.logged
    /\ subscriptions' = r.file
    /\ workers' = IF r.spawn = NoWorker THEN workers
                  ELSE Append(workers, NewWorker(r.spawn))
    /\ update' = NoUpdate
    /\ UNCHANGED <<ADMIN_ID, now, progress, grants>>

Outcomes == {"ok", "fail"}

\* command arguments as the text handlers see them
TextArgs(upd) == IF upd.text = "" THEN <<>> ELSE <<upd.text>>

StartCommand ==
    Dispatch("start", start(update.user, ADMIN_ID, subscriptions, now))

SearchCommand ==
    \E ext \in Outcomes \cup {"raise"} :
        Dispatch("search",
                 search(update.user, TextArgs(update), ext, ADMIN_ID, subscriptions, now))

PlaylistCommand ==
    \E ext \in Outcomes :
        Dispatch("playlist",
                 playlist(update.user, TextArgs(update), ext, ADMIN_ID, subscriptions, now))

AddSubCommand ==
    Dispatch("addsub",
             admin_add_sub(update.user, update.args, ADMIN_ID, subscriptions, now))

TextMessage ==
    \E ext \in Outcomes :
        Dispatch("handle_url",
                 handle_url(update.user, update.text, ext, ADMIN_ID, subscriptions, now))

SelectCallback ==
    \E ext \in Outcomes :
        Dispatch("handle_video_selection",
                 handle_video_selection(update.user, update.data, ext,
                                        ADMIN_ID, subscriptions, now))

DownloadCallback ==
    \E ext \in Outcomes :
        Dispatch("handle_download",
                 handle_download(update.user, update.data, ext,
                                 ADMIN_ID, subscriptions, now))

PlaylistCallback ==
    \E ext \in Outcomes :
        Dispatch("handle_playlist_download",
                 handle_playlist_download(update.user, update.data, ext,
                                          ADMIN_ID, subscriptions, now))

SubscribeCallback ==
    Dispatch("handle_subscription",
             handle_subscription(update.user, ADMIN_ID, subscriptions, now))

\* wall-clock time passes
Tick ==
    /\ now' = IF now.tod = 0 THEN [now EXCEPT !.tod = 1]
              ELSE [day |-> now.day + 1, tod |-> 0]
    /\ now'.day <= StartDay + MaxDay
    /\ UNCHANGED <<ADMIN_ID, subscriptions, workers, replies, logged, update,
                   progress, grants>>

(***************************************************************************)
(* Background workers.  Every external call of a worker succeeds or        *)
(* raises.                                                                 *)
(***************************************************************************)
WorkerStep(w, i) ==
    /\ workers' = [workers EXCEPT ![i] = w]
    /\ UNCHANGED <<ADMIN_ID, now, subscriptions, replies, logged, update,
                   progress, grants>>

\* the except clause of a worker: edit_message_text with the error text
except_edit(w, ok) ==
    IF ok THEN [w EXCEPT !.pc = "done", !.status = "error"]
    ELSE [w EXCEPT !.pc = "crashed"]

\* stream.stream_to_buffer(buffer)
download_transfer(w, ok) == [w EXCEPT !.pc = IF ok THEN "send" ELSE "except"]

\* context.bot.send_video / send_audio
download_send(w, ok) ==
    IF ok THEN [w EXCEPT !.pc = "delete", !.delivered = TRUE]
    ELSE [w EXCEPT !.pc = "except"]

\* context.bot.delete_message of the status message
download_delete(w, ok) ==
    IF ok THEN [w EXCEPT !.pc = "done", !.status = "deleted"]
    ELSE [w EXCEPT !.pc = "except"]

DownloadTransfer ==
    \E i \in DOMAIN workers, ok \in BOOLEAN :
        /\ workers[i].kind = "video" /\ workers[i].pc = "transfer"
        /\ WorkerStep(download_transfer(workers[i], ok), i)

DownloadSend ==
    \E i \in DOMAIN workers, ok \in BOOLEAN :
        /\ workers[i].kind = "video" /\ workers[i].pc = "send"
        /\ WorkerStep(download_send(workers[i], ok), i)

DownloadDelete ==
    \E i \in DOMAIN workers, ok \in BOOLEAN :
        /\ workers[i].kind = "video" /\ workers[i].pc = "delete"
        /\ WorkerStep(download_delete(workers[i], ok), i)

DownloadExcept ==
    \E i \in DOMAIN workers, ok \in BOOLEAN :
        /\ workers[i].kind = "video" /\ workers[i].pc = "except"
        /\ WorkerStep(except_edit(workers[i], ok), i)

\* one iteration of the loop over pl.videos: the video is sent, or it fails
\* and the failure notice is sent, or the failure notice raises too
playlist_video(w, outcome) ==
    LET next == IF w.i = MaxVideos THEN "complete" ELSE "videos"
    IN IF outcome = "sent"
       THEN [w EXCEPT !.i = @ + 1, !.success_count = @ + 1, !.delivered = TRUE, !.pc = next]
       ELSE IF outcome = "failed" THEN [w EXCEPT !.i = @ + 1, !.pc = next]
       ELSE [w EXCEPT !.pc = "except"]

\* send_message with the completion summary
playlist_complete(w, ok) == [w EXCEPT !.pc = IF ok THEN "delete" ELSE "except"]

PlaylistVideo ==
    \E i \in DOMAIN workers, outcome \in {"sent", "failed", "raise"} :
        /\ workers[i].kind = "playlist" /\ workers[i].pc = "videos"
        /\ WorkerStep(playlist_video(workers[i], outcome), i)

PlaylistComplete ==
    \E i \in DOMAIN workers, ok \in BOOLEAN :
        /\ workers[i].kind = "playlist" /\ workers[i].pc = "complete"
        /\ WorkerStep(playlist_complete(workers[i], ok), i)

PlaylistDelete ==
    \E i \in DOMAIN workers, ok \in BOOLEAN :
        /\ workers[i].kind = "playlist" /\ workers[i].pc = "delete"
        /\ WorkerStep(download_delete(workers[i], ok), i)

PlaylistExcept ==
    \E i \in DOMAIN workers, ok \in BOOLEAN :
        /\ workers[i].kind = "playlist" /\ workers[i].pc = "except"
        /\ WorkerStep(except_edit(workers[i], ok), i)

(***************************************************************************)
(* Idle values of the variables of the other specifications.               *)
(***************************************************************************)
IdleProgress == [pc |-> "idle"]
IdleGrants == <<>>

Init ==
    /\ ADMIN_ID \in {None, Some(AdminUser)}
    /\ now = [day |-> StartDay, tod |-> 0]
    /\ subscriptions = EmptyStore
    /\ workers = <<>>
    /\ replies = <<>>
    /\ logged = FALSE
    /\ update = NoUpdate
    /\ progress = IdleProgress
    /\ grants = IdleGrants

Next ==
    \/ Receive
    \/ StartCommand
    \/ SearchCommand
    \/ PlaylistCommand
    \/ AddSubCommand
    \/ TextMessage
    \/ SelectCallback
    \/ DownloadCallback
    \/ PlaylistCallback
    \/ SubscribeCallback
    \/ Tick

\* the dispatcher: updates, the entitlement store, the clock, worker starts
Spec == Init /\ [][Next]_vars

\* a callback of a button of the bot arrives
ReceiveCallback ==
    /\ Receive
    /\ update'.kind = "callback_query"

NextWorker ==
    \/ ReceiveCallback
    \/ DownloadCallback
    \/ PlaylistCallback
    \/ DownloadTransfer
    \/ DownloadSend
    \/ DownloadDelete
    \/ DownloadExcept
    \/ PlaylistVideo
    \/ PlaylistComplete
    \/ PlaylistDelete
    \/ PlaylistExcept

\* downloads: from the callback that starts a worker to the worker's end
SpecWorker == Init /\ [][NextWorker]_vars

(***************************************************************************)
(* Properties of Spec.                                                     *)
(***************************************************************************)
\* calendar dates, compared field by field
DateLater(a, b) ==
    \/ a[1] > b[1]
    \/ a[1] = b[1] /\ a[2] > b[2]
    \/ a[1] = b[1] /\ a[2] = b[2] /\ a[3] > b[3]

\* the calendar date that follows a date
NextDate(d) ==
    IF d[3] < DaysInMonth(d[1], d[2]) THEN <<d[1], d[2], d[3] + 1>>
    ELSE IF d[2] < 12 THEN <<d[1], d[2] + 1, 1>>
    ELSE <<d[1] + 1, 1, 1>>

RECURSIVE DateAfter(_, _)
DateAfter(d, n) == IF n = 0 THEN d ELSE DateAfter(NextDate(d), n - 1)

\* the calendar date of the clock
Today == strftime(now)

HasRecord(u) == str(u) \in DOMAIN subscriptions.users

Entitled(u) == is_subscribed(u, ADMIN_ID, subscriptions, now)

\* this step is the dispatcher handling the update it holds with handler h
Handles(h) == update # NoUpdate /\ update' = NoUpdate /\ Handler(update) = h

\* C1: is_subscribed is true exactly for the administrator and for a user
\* whose stored expiry date is strictly later than the current date
C1_Entitlement ==
    \A u \in Users :
        Entitled(u) <=>
            \/ Some(u) = ADMIN_ID
            \/ HasRecord(u) /\ DateLater(subscriptions.users[str(u)].expiry, Today)

\* a refused request of a non-administrator whose record expires today
C1_Witness ==
    /\ replies = <<"please_subscribe">>
    /\ \E u \in Users :
          /\ Some(u) # ADMIN_ID
          /\ HasRecord(u)
          /\ subscriptions.users[str(u)].expiry = Today
          /\ ~Entitled(u)

\* the update held is an /addsub of the administrator whose first two
\* arguments are numerals
IsGrant ==
    /\ Some(update.user) = ADMIN_ID
    /\ Len(update.args) >= 2
    /\ update.args[1].num /\ update.args[2].num

\* C2: a grant of N days on date D stores exactly D + N days, whatever the
\* record held before
C2_GrantResets ==
    [][(Handles("addsub") /\ IsGrant) =>
          /\ str(update.args[1].val) \in DOMAIN subscriptions'.users
          /\ subscriptions'.users[str(update.args[1].val)].expiry
                 = DateAfter(Today, update.args[2].val)]_vars

\* a grant was answered on a later day than the first, while the store also
\* holds a record that has expired since an earlier grant
C2_Witness ==
    /\ replies = <<"added">>
    /\ now.day > StartDay
    /\ \E k \in DOMAIN subscriptions.users :
          ~DateLater(Today, subscriptions.users[k].expiry)
    /\ \E k \in DOMAIN subscriptions.users :
          DateLater(Today, subscriptions.users[k].expiry)

GatedHandlers == {"search", "playlist", "handle_url", "handle_video_selection",
                  "handle_download", "handle_playlist_download"}

\* C3: a worker is started only by handling a request of an entitled sender,
\* and a gated request of a non-entitled sender is answered 'Please
\* subscribe' and starts none
C3_OnlyEntitledStart ==
    [][/\ Len(workers') > Len(workers) =>
             /\ \E h \in {"handle_download", "handle_playlist_download"} : Handles(h)
             /\ Entitled(update.user)
       /\ (\E h \in GatedHandlers : Handles(h)) /\ ~Entitled(update.user) =>
             /\ replies' = <<"please_subscribe">>
             /\ workers' = workers]_vars

\* a worker was started and a later request was refused
C3_Witness ==
    /\ Len(workers) > 0
    /\ replies = <<"please_subscribe">>

\* C4: /addsub from anyone but the configured administrator is rejected and
\* leaves the store unchanged
C4_NonAdminRejected ==
    [][(Handles("addsub") /\ Some(update.user) # ADMIN_ID) =>
          /\ replies' = <<"no_permission">>
          /\ subscriptions' = subscriptions]_vars

\* a rejected /addsub while the store holds a record
C4_Witness ==
    /\ replies = <<"no_permission">>
    /\ subscriptions # EmptyStore

\* a malformed /addsub: not exactly two arguments, or one that is not numeric
Malformed(args) == Len(args) # 2 \/ \E i \in 1..Len(args) : ~args[i].num

\* C5 as stated: every malformed /addsub of the administrator is answered
\* with the usage message and leaves the store unchanged
C5_Original ==
    [][(/\ Handles("addsub")
        /\ Some(update.user) = ADMIN_ID
        /\ Malformed(update.args)) =>
          /\ replies' = <<"usage">>
          /\ subscriptions' = subscriptions]_vars

\* C5 amended: an administrator's /addsub with fewer than two arguments is
\* answered with the usage message, one with two or more arguments whose
\* first or second argument is not numeric with an 'Error: ...' message;
\* either way the store is unchanged
C5_Amended ==
    [][(Handles("addsub") /\ Some(update.user) = ADMIN_ID) =>
          /\ Len(update.args) < 2 =>
                 replies' = <<"usage">> /\ subscriptions' = subscriptions
          /\ (Len(update.args) >= 2 /\ ~IsGrant) =>
                 replies' = <<"error_text">> /\ subscriptions' = subscriptions]_vars

\* the usage message was sent while the store holds a record
C5_Witness ==
    /\ replies = <<"usage">>
    /\ subscriptions # EmptyStore

\* C8 as stated: whenever the error handler ran, the user was sent the
\* generic message
C8_ErrorInformsUser ==
    logged => replies # <<>> /\ replies[Len(replies)] = "generic_error"

\* C10: the store changes only by an accepted grant of the administrator,
\* which sets the target's record and keeps every other record; no record
\* is ever removed
C10_StoreFrame ==
    [][/\ DOMAIN subscriptions.users \subseteq DOMAIN subscriptions'.users
       /\ subscriptions' # subscriptions =>
             /\ Handles("addsub") /\ IsGrant
             /\ \A k \in DOMAIN subscriptions.users :
                    k # str(update.args[1].val) =>
                        subscriptions'.users[k] = subscriptions.users[k]
             /\ DOMAIN subscriptions'.users
                    = DOMAIN subscriptions.users \cup {str(update.args[1].val)}]_vars

\* a grant was answered and the store holds the records of two users
C10_Witness ==
    /\ replies = <<"added">>
    /\ Cardinality(DOMAIN subscriptions.users) = 2

\* the payload kinds of the download buttons
DownloadTypes == {"video", "audio"}

\* C11 as stated: on every step that handles the button press of an
\* entitled user (the gate comes before the decoding), the payload
\* select_<video id> is decoded by handle_video_selection into that video id,
\* and the payload download_<video|audio>_<video id>_<itag> is decoded by
\* handle_download into that download type, video id and itag, for every
\* video id of the catalogue, ids holding an underscore included
C11_RoundTrip ==
    [][/\ (Handles("handle_video_selection") /\ Entitled(update.user)) =>
            \A id \in VideoIds :
                update.data = select_data(id) =>
                    selection_video_id(update.data) = id
       /\ (Handles("handle_download") /\ Entitled(update.user)) =>
            \A type \in DownloadTypes, id \in VideoIds, itag \in Itags :
                update.data = download_data(type, id, itag) =>
                    download_fields(update.data)
                        = [raised |-> FALSE, download_type |-> <<type>>,
                           id |-> id, itag |-> itag]]_vars

\* the playlist buttons the bot builds for a playlist id, each with the
\* download type its label promises: Download All Videos, Download as Audio
\* (both of playlist) and Download Entire Playlist (of handle_video_selection)
PlaylistButtons(id) ==
    {[data |-> playlist_all_data(id), download_type |-> <<"video">>],
     [data |-> playlist_audio_data(id), download_type |-> <<"audio">>],
     [data |-> playlist_entire_data(id), download_type |-> <<"video">>]}

\* C12 as stated: on every step that handles the press of a playlist button
\* the bot built, the press is routed to handle_playlist_download and, when
\* the user is entitled, nothing is raised and the payload is decoded into
\* the playlist id of the button and the download type of its label
C12_PlaylistPayloads ==
    [][\A id \in PlaylistIds : \A b \in PlaylistButtons(id) :
          (/\ update # NoUpdate
           /\ update' = NoUpdate
           /\ update.kind = "callback_query"
           /\ update.data = b.data) =>
              /\ Handler(update) = "handle_playlist_download"
              /\ Entitled(update.user) =>
                    /\ ~logged'
                    /\ playlist_fields(update.data)
                          = [raised |-> FALSE, download_type |-> b.download_type,
                             id |-> id, itag |-> <<>>]]_vars

(***************************************************************************)
(* Properties of SpecWorker.                                               *)
(***************************************************************************)
\* the worker ended: its thread returned or died of an exception
Ended(w) == w.pc \in {"done", "crashed"}

\* C9 as stated: a single-video worker that ended either sent the media and
\* deleted the status message, or replaced the status message by an error
\* text without having delivered the media
C9_TwoOutcomes ==
    \A i \in DOMAIN workers :
        (workers[i].kind = "video" /\ Ended(workers[i])) =>
            \/ workers[i].delivered /\ workers[i].status = "deleted"
            \/ ~workers[i].delivered /\ workers[i].status = "error"

(***************************************************************************)
(* SpecProgress: the progress reporter, called by the streaming transfer   *)
(* after every chunk.  Percentages are kept in tenths of a percent.        *)
(***************************************************************************)
\* the slots of the progress bar
progress_bar_length == 20

\* download_progress: total_size is stream.filesize, start_time is
\* context.download_start_time (None before the first call), current_time
\* is time.time(), edit_ok tells whether edit_message_text succeeds
download_progress(total_size, bytes_remaining, start_time, current_time, edit_ok) ==
    LET bytes_downloaded == total_size - bytes_remaining
    IN IF total_size = 0
       THEN [raised |-> TRUE, percentage |-> 0, filled_length |-> 0,
             speed_text |-> "", start_time |-> start_time,
             edited |-> FALSE, logged |-> FALSE]
       ELSE LET percentage == (bytes_downloaded * 1000) \div total_size
                speed_text ==
                    IF start_time # None
                    THEN (IF current_time - start_time[1] > 0
                          THEN "speed" ELSE "calculating")
                    ELSE "starting"
                filled_length == (progress_bar_length * percentage) \div 1000
            IN [raised |-> FALSE, percentage |-> percentage,
                filled_length |-> filled_length, speed_text |-> speed_text,
                start_time |-> IF start_time # None THEN start_time
                               ELSE Some(current_time),
                edited |-> edit_ok, logged |-> ~edit_ok]

\* the status message before the first call of the reporter
NothingShown ==
    [raised |-> FALSE, percentage |-> 0, filled_length |-> 0, speed_text |-> "",
     start_time |-> None, edited |-> FALSE, logged |-> FALSE]

\* a transfer of a stream of size filesize begins
NewTransfer(filesize) ==
    [pc |-> "streaming", filesize |-> filesize, bytes_remaining |-> filesize,
     clock |-> 0, calls |-> 0,
     shown |-> NothingShown]

\* a chunk arrives and the transfer calls the reporter
ProgressCall ==
    /\ progress.pc = "streaming"
    /\ progress.calls = 0 \/ progress.bytes_remaining > 0
    /\ \E remaining \in 0..progress.bytes_remaining, dt \in 0..1, edit_ok \in BOOLEAN :
          /\ remaining < progress.bytes_remaining \/ progress.filesize = 0
          /\ progress.clock + dt <= MaxElapsed
          /\ LET start_time == IF progress.calls = 0 THEN None
                               ELSE progress.shown.start_time
                 r == download_progress(progress.filesize, remaining, start_time,
                                        progress.clock + dt, edit_ok)
             IN progress' = [progress EXCEPT
                    !.pc = IF r.raised THEN "raised" ELSE "streaming",
                    !.bytes_remaining = remaining,
                    !.clock = @ + dt,
                    !.calls = @ + 1,
                    !.shown = r]
    /\ UNCHANGED <<ADMIN_ID, now, subscriptions, workers, replies, logged, update, grants>>

InitProgress ==
    /\ ADMIN_ID = None
    /\ now = [day |-> StartDay, tod |-> 0]
    /\ subscriptions = EmptyStore
    /\ workers = <<>>
    /\ replies = <<>>
    /\ logged = FALSE
    /\ update = NoUpdate
    /\ progress \in {NewTransfer(filesize) : filesize \in 0..MaxSize}
    /\ grants = IdleGrants

NextProgress == ProgressCall

SpecProgress == InitProgress /\ [][NextProgress]_vars

\* C6 as stated: no call of the reporter divides by a zero total size, and
\* the percentage it reports lies in [0, 100]
C6_NoZeroDivision ==
    progress.calls > 0 =>
        /\ progress.pc # "raised"
        /\ progress.shown.percentage \in 0..1000

(***************************************************************************)
(* SpecRace: two add_subscription calls on the same file.  Each loads the  *)
(* file, sets its record in the loaded mapping and saves the mapping.      *)
(***************************************************************************)
Granters == 1..2

\* line 76: load_subscriptions(); lines 77-82: the record is set in memory
GrantLoad(p) ==
    /\ grants[p].pc = "load"
    /\ grants' = [grants EXCEPT
           ![p].pc = "save",
           ![p].seen = Cardinality({q \in Granters : grants[q].pc = "done"}),
           ![p].data = grant_record(load_subscriptions(subscriptions),
                                    grants[p].user_id, grants[p].days, now)]
    /\ UNCHANGED <<ADMIN_ID, now, subscriptions, workers, replies, logged, update, progress>>

\* line 84: save_subscriptions(subscriptions)
GrantSave(p) ==
    /\ grants[p].pc = "save"
    /\ subscriptions' = save_subscriptions(subscriptions, grants[p].data)
    /\ grants' = [grants EXCEPT ![p].pc = "done"]
    /\ UNCHANGED <<ADMIN_ID, now, workers, replies, logged, update, progress>>

InitRace ==
    /\ ADMIN_ID = Some(AdminUser)
    /\ now = [day |-> StartDay, tod |-> 0]
    /\ subscriptions = EmptyStore
    /\ workers = <<>>
    /\ replies = <<>>
    /\ logged = FALSE
    /\ update = NoUpdate
    /\ progress = IdleProgress
    /\ grants \in [Granters -> [pc : {"load"}, user_id : ArgInts, days : ArgInts,
                                seen : {0}, data : {EmptyStore}]]

NextRace == \E p \in Granters : GrantLoad(p) \/ GrantSave(p)

SpecRace == InitRace /\ [][NextRace]_vars

\* both grants are over, both loaded the file before either saved, and
\* they are grants to different users
RacedGrants ==
    /\ grants # IdleGrants
    /\ \A p \in Granters : grants[p].pc = "done" /\ grants[p].seen = 0
    /\ grants[1].user_id # grants[2].user_id

\* C7: when both grants load the store before either saves, the store ends
\* with the record of only one of them; the other grant's record is lost
C7_LostUpdate ==
    RacedGrants =>
        \E p \in Granters :
            /\ subscriptions = grants[p].data
            /\ DOMAIN subscriptions.users = {str(grants[p].user_id)}
            /\ \A q \in Granters \ {p} :
                   str(grants[q].user_id) \notin DOMAIN subscriptions.users

\* two raced grants ended and the store holds one record
C7_Witness ==
    /\ RacedGrants
    /\ Cardinality(DOMAIN subscriptions.users) = 1

=============================================================================
